---- MODULE Spec2Model ----
(***************************************************************************)
(* Model of cms/fts2yaml.py: the FTS column model (FTSColumn and its       *)
(* subclasses), the table parsers (CMSFTS, MedicaidFTS, MedicareFTS) and   *)
(* their two projections (to_dict, to_fwf_meta).                           *)
(*                                                                         *)
(* Python values that may be None are tagged records: PyNone, PyInt(i),    *)
(* PyFloat(i, f), PyStr(s).  Text the code parses (formats, numeric        *)
(* fields, metadata values) is a sequence of one-character strings; text   *)
(* the code only compares or upper-cases (names, type tokens, labels) is   *)
(* a TLA+ string.  An operation that can raise returns a record whose      *)
(* field exc names the exception ("" when it returns normally).            *)
(***************************************************************************)
EXTENDS Integers, Sequences, FiniteSets, TLC

VARIABLES
    common_indices,   \* the class attribute CMSFTS.common_indices (one list object)
    parsers,          \* the parser instances, by slot
    history,          \* the calls made so far, in order
    last              \* the last call: its arguments, the state before it and its result

vars == <<common_indices, parsers, history, last>>

----------------------------------------------------------------------------
(* Bounds of the model *)

MaxParsers == 2
MaxCalls == 2

----------------------------------------------------------------------------
(* Python values *)

\* Body applied to a value: the value is named once and used many times
With(value, Body(_)) == Body(value)

PyNone == [t |-> "NoneType"]
PyInt(i) == [t |-> "int", v |-> i]
PyStr(s) == [t |-> "str", v |-> s]
PyTrue == [t |-> "bool", v |-> TRUE]
\* a float, as its integer part and the digits str() prints after the point
PyFloat(i, f) == [t |-> "float", v |-> i, frac |-> f]

Digits == <<"0", "1", "2", "3", "4", "5", "6", "7", "8", "9">>

\* str.isdigit() of one character
isdigit(c) == \E d \in 1..10 : Digits[d] = c

DigitValue(c) == (CHOOSE d \in 1..10 : Digits[d] = c) - 1

\* str.isdigit() of a string: non-empty and all digits
str_isdigit(s) == Len(s) > 0 /\ \A k \in 1..Len(s) : isdigit(s[k])

RECURSIVE DecimalValue(_)
DecimalValue(s) ==
    IF s = <<>> THEN 0
    ELSE DecimalValue(SubSeq(s, 1, Len(s) - 1)) * 10 + DigitValue(s[Len(s)])

RECURSIVE lstrip(_)
lstrip(s) == IF s # <<>> /\ s[1] = " " THEN lstrip(Tail(s)) ELSE s

RECURSIVE rstrip(_)
rstrip(s) ==
    IF s # <<>> /\ s[Len(s)] = " " THEN rstrip(SubSeq(s, 1, Len(s) - 1)) ELSE s

\* str.strip()
strip(s) == rstrip(lstrip(s))

\* str.split(sep) for a one-character separator: the list of parts
RECURSIVE split(_, _)
split(s, sep) ==
    IF \A k \in 1..Len(s) : s[k] # sep THEN <<s>>
    ELSE LET p == CHOOSE k \in 1..Len(s) :
                      s[k] = sep /\ \A j \in 1..(k - 1) : s[j] # sep
         IN  <<SubSeq(s, 1, p - 1)>> \o split(SubSeq(s, p + 1, Len(s)), sep)

\* str.replace(c, '') for a one-character c
RECURSIVE remove(_, _)
remove(s, c) ==
    IF s = <<>> THEN <<>>
    ELSE (IF s[1] = c THEN <<>> ELSE <<s[1]>>) \o remove(Tail(s), c)

\* int(text): the value, or ValueError (the texts of the model carry no sign)
int_of_str(s) ==
    With(strip(s),
         LAMBDA d : IF str_isdigit(d) THEN [exc |-> "", value |-> DecimalValue(d)]
                    ELSE [exc |-> "ValueError"])

RECURSIVE rstrip_zeros(_)
rstrip_zeros(s) ==
    IF s # <<>> /\ s[Len(s)] = "0" THEN rstrip_zeros(SubSeq(s, 1, Len(s) - 1))
    ELSE s

\* float(text): digits, optionally a point and digits; str() of the result
\* prints the fraction without trailing zeros, "0" for a whole number
float_parts(whole, fr) ==
    IF /\ whole # <<>> \/ fr # <<>>
       /\ \A k \in 1..Len(whole) : isdigit(whole[k])
       /\ \A k \in 1..Len(fr) : isdigit(fr[k])
    THEN [exc |-> "",
          value |-> PyFloat(DecimalValue(whole),
                            With(rstrip_zeros(fr),
                                 LAMBDA d : IF d = <<>> THEN <<"0">> ELSE d))]
    ELSE [exc |-> "ValueError"]

float_of_str(s) ==
    With(split(strip(s), "."),
         LAMBDA x : IF Len(x) > 2 THEN [exc |-> "ValueError"]
                    ELSE float_parts(x[1], IF Len(x) > 1 THEN x[2] ELSE <<>>))

\* a == b for two Python numbers or None (an int equals a whole float)
PyEq(a, b) ==
    CASE a.t = "NoneType" \/ b.t = "NoneType" -> a.t = b.t
      [] a.t = "str" \/ b.t = "str" -> a = b
      [] a.t = "int" /\ b.t = "int" -> a.v = b.v
      [] a.t = "float" /\ b.t = "float" -> a.v = b.v /\ a.frac = b.frac
      [] a.t = "int" /\ b.t = "float" -> a.v = b.v /\ b.frac = <<"0">>
      [] a.t = "float" /\ b.t = "int" -> a.v = b.v /\ a.frac = <<"0">>

\* str.upper() over the names and type tokens of the model: every other
\* string of the model is upper case already
upper(s) ==
    CASE s = "bene_id" -> "BENE_ID"
      [] s = "num" -> "NUM"
      [] s = "char" -> "CHAR"
      [] OTHER -> s

\* str.lower() over the table-type tokens of the model
lower(s) ==
    CASE s = "PS" -> "ps"
      [] s = "IP" -> "ip"
      [] s = "MEDPAR" -> "medpar"
      [] OTHER -> s

----------------------------------------------------------------------------
(* Imported names *)

ORIGINAL_FILE_COLUMN == "FILE"
PG_SERIAL_TYPE == "SERIAL"
PG_STR_TYPE == "VARCHAR"
PG_NUMERIC_TYPE == "NUMERIC"
PG_INT_TYPE == "INT"
PG_DATE_TYPE == "DATE"

----------------------------------------------------------------------------
(* Module constants *)

MEDICARE_FILE_TYPES == <<"mbsf_abcd", "mbsf_ab", "mbsf_d", "medpar">>

\* the keys of MEDICARE_KEY_COLUMNS, in the order the dict lists them
MEDICARE_KEYS == <<"BENE_ID", "STATE", "YEAR", "ZIP">>

MEDICARE_KEY_COLUMNS ==
    [key \in {"BENE_ID", "STATE", "YEAR", "ZIP"} |->
        CASE key = "BENE_ID" -> <<>>
          [] key = "STATE" -> <<"STATE_CD">>
          [] key = "YEAR" -> <<"RFRNC_YR", "MEDPAR_YR_NUM">>
          [] key = "ZIP" -> <<"BENE_ZIP", "ZIP_CD">>]

Range(s) == {s[k] : k \in 1..Len(s)}

----------------------------------------------------------------------------
(* FTSColumn and its subclasses.  A column object is a record of its      *)
(* instance attributes; cls is its Python class.                           *)

\* FTSColumn.__init__: _attrs lists the public attributes that exist when
\* the base constructor runs
FTSColumn(order, column, c_type, c_format, c_width, label) ==
    [cls |-> "FTSColumn",
     order |-> order,
     column |-> column,
     type |-> c_type,
     format |-> c_format,
     width |-> c_width,
     label |-> label,
     is_input |-> TRUE,
     _attrs |-> <<"order", "column", "type", "format", "width", "label",
                  "is_input">>]

\* the attributes of a column object that hold a tagged Python value
TaggedAttrs == {"order", "format", "width", "start", "end"}

\* getattr(a, attr) != getattr(b, attr)
attr_ne(a, b, attr) ==
    IF attr \in TaggedAttrs THEN ~PyEq(a[attr], b[attr]) ELSE a[attr] # b[attr]

\* isinstance(o, FTSColumn)
isinstance_FTSColumn(o) ==
    o.cls \in {"FTSColumn", "AliasColumn", "MedicaidFTSColumn",
               "MedicareFTSColumn"}

\* FTSColumn.__eq__
FTSColumn__eq__(self, o) ==
    IF ~isinstance_FTSColumn(o) THEN FALSE
    ELSE \A k \in 1..Len(self._attrs) : ~attr_ne(self, o, self._attrs[k])

\* FTSColumn.analyze_format: (can_be_numeric, scale, w), or the exception
analyze_format(self) ==
    IF self.format # PyNone
    THEN IF self.format.v = <<>> THEN [exc |-> "IndexError"]   \* format[0]
         ELSE With(isdigit(self.format.v[1]), LAMBDA can_be_numeric :
              With(split(IF can_be_numeric THEN self.format.v
                         ELSE Tail(self.format.v), "."), LAMBDA x :
                  IF Len(x) > 1 /\ x[2] # <<>>
                  THEN [exc |-> "TypeError"]      \* x(1): a list is not callable
                  ELSE [exc |-> "", can_be_numeric |-> can_be_numeric,
                        scale |-> PyNone,
                        w |-> IF str_isdigit(x[1]) THEN PyInt(DecimalValue(x[1]))
                              ELSE PyNone]))
    ELSE IF self.width = PyNone THEN [exc |-> "TypeError"]   \* int(None)
    ELSE [exc |-> "", can_be_numeric |-> TRUE,
          scale |-> IF ~PyEq(PyInt(self.width.v), self.width)
                    THEN PyInt(DecimalValue(self.width.frac))
                    ELSE PyNone,
          w |-> PyInt(self.width.v)]

\* "{}({:d})".format(name, w) and "{}({:d},{:d})".format(name, w, s)
SqlType(name, args) == [exc |-> "", value |-> [name |-> name, args |-> args]]

\* FTSColumn.to_sql_type
to_sql_type(self) ==
    With(upper(self.type), LAMBDA t :
    IF t = PG_SERIAL_TYPE THEN SqlType(t, <<>>)
    ELSE With(analyze_format(self), LAMBDA a :
         IF a.exc # "" THEN [exc |-> a.exc]
         ELSE CASE t = "CHAR" ->
                     IF a.w = PyNone THEN [exc |-> "TypeError"]
                     ELSE SqlType(PG_STR_TYPE, <<a.w.v>>)
                [] t = "NUM" ->
                     IF ~a.can_be_numeric
                     THEN (IF a.w = PyNone THEN [exc |-> "TypeError"]
                           ELSE SqlType(PG_STR_TYPE, <<a.w.v>>))
                     ELSE IF a.scale # PyNone
                     THEN (IF a.w = PyNone THEN [exc |-> "TypeError"]
                           ELSE SqlType(PG_NUMERIC_TYPE, <<a.w.v, a.scale.v>>))
                     ELSE SqlType(PG_INT_TYPE, <<>>)
                [] t = "DATE" -> SqlType(PG_DATE_TYPE, <<>>)
                [] OTHER -> [exc |-> "Exception: Unexpected column type"]))

\* FTSColumn.to_dict
FTSColumn_to_dict(self) ==
    With(to_sql_type(self), LAMBDA t :
    IF t.exc # "" THEN [exc |-> t.exc]
    ELSE [exc |-> "",
          value |-> [type |-> t.value, description |-> self.label]])

\* FTSColumn.to_fwf_column: the FWFColumn the external reader is given
to_fwf_column(self, pos) ==
    With(analyze_format(self), LAMBDA a :
    IF a.exc # "" THEN [exc |-> a.exc]
    ELSE [exc |-> "",
          value |-> [name |-> self.column, type |-> self.type,
                     order |-> self.order, start |-> pos,
                     width |-> <<a.w, a.scale>>]])

\* AliasColumn.__init__
AliasColumn(alias, column) ==
    [cls |-> "AliasColumn", target |-> column.column] @@
    FTSColumn(column.order, alias, column.type, column.format, column.width,
              column.label)

\* AliasColumn.to_dict
AliasColumn_to_dict(self) ==
    With(FTSColumn_to_dict(self), LAMBDA d :
    IF d.exc # "" THEN d
    ELSE [exc |-> "",
          value |-> [index |-> PyTrue,
                     source |-> [type |-> "generated", code |-> self.target]]
                    @@ d.value])

\* MedicaidFTSColumn: the inherited constructor; nattrs = 6
MedicaidFTSColumn(order, column, c_type, c_format, c_width, label) ==
    [cls |-> "MedicaidFTSColumn"] @@
    FTSColumn(order, column, c_type, c_format, c_width, label)

\* MedicareFTSColumn.__init__; nattrs = 7.  start - 1 and start + width
\* raise TypeError on None
MedicareFTSColumn(order, long_name, short_name, type, start, width, desc) ==
    IF start = PyNone \/ width = PyNone THEN [exc |-> "TypeError"]
    ELSE [exc |-> "",
          value |->
            [cls |-> "MedicareFTSColumn",
             long_name |-> long_name,
             start |-> PyInt(start.v - 1),
             end |-> IF width.t = "float"
                     THEN PyFloat(start.v - 1 + width.v, width.frac)
                     ELSE PyInt(start.v - 1 + width.v)] @@
            FTSColumn(order, short_name, type, PyNone, width, desc)]

\* the to_dict the column's class defines
to_dict_of(c) ==
    IF c.cls = "AliasColumn" THEN AliasColumn_to_dict(c) ELSE FTSColumn_to_dict(c)

----------------------------------------------------------------------------
(* The state after loading the module: no parser constructed *)

\* an element of an index list: a column name, or a composite-index dict
IdxName(s) == [t |-> "str", v |-> s]
IdxPrimary(cols) == [t |-> "dict", primary |-> [columns |-> cols]]

NoParser == [cls |-> "none"]

\* CMSFTS.common_indices as the class statement leaves it
CMSFTS_common_indices == <<IdxName("BENE_ID"), IdxName(ORIGINAL_FILE_COLUMN)>>

Init ==
    /\ common_indices = CMSFTS_common_indices
    /\ parsers = [p \in 1..MaxParsers |-> NoParser]
    /\ history = <<>>
    /\ last = [op |-> "none"]

----------------------------------------------------------------------------
(* The text of an FTS file.  A line is a record of what read_file tests   *)
(* on it and of the field texts the divider's template slices from it.    *)

\* a line with no colon that is none of the lines below
TextLine == [k |-> "text"]
\* "key: value"
MetaLine(key, val) == [k |-> "meta", key |-> key, val |-> val]
\* starts with '---' and holds '------------------'; fields = len(line.split(' '))
DividerLine(n) == [k |-> "divider", fields |-> n]
\* a column-definition line, as the texts of its fields
ColumnLine(attrs) == [k |-> "column", attrs |-> attrs]
\* a line that strip() empties
BlankLine == [k |-> "blank"]
\* "Note: ..."
NoteLine == [k |-> "note", key |-> "Note", val |-> <<"n">>]
\* starts with "-" and holds "End", without the divider's long dash run
EndLine == [k |-> "end"]

is_divider(line) == line.k = "divider"
has_colon(line) == line.k \in {"meta", "note"}

\* d[key] = value on a dict
dict_set(d, key, value) == (key :> value) @@ d

EmptyDict == [x \in {} |-> <<>>]

----------------------------------------------------------------------------
(* ColumnReader *)

nattrs(constructor) == IF constructor = "MedicaidFTSColumn" THEN 6 ELSE 7

\* FTSColumn.conv / MedicareFTSColumn.conv: the conversion of the i-th field
conv(constructor, i) ==
    IF i \in {0, 4} THEN "int"
    ELSE IF constructor = "MedicareFTSColumn" /\ i = 5 THEN "float"
    ELSE "str"

\* ColumnAttribute.arg: the converted field, None when the conversion
\* raises.  Names, type tokens and labels are kept as they are.
arg(cv, text) ==
    CASE cv = "int" ->
           With(int_of_str(text),
                LAMBDA r : IF r.exc = "" THEN PyInt(r.value) ELSE PyNone)
      [] cv = "float" ->
           With(float_of_str(text),
                LAMBDA r : IF r.exc = "" THEN r.value ELSE PyNone)
      [] OTHER -> text

\* ColumnReader.__init__: the assertion on the number of fields
ColumnReader(constructor, pattern) ==
    IF pattern.fields # nattrs(constructor) THEN [exc |-> "AssertionError"]
    ELSE [exc |-> "", constructor |-> constructor]

\* ColumnReader.read
ColumnReader_read(reader, line) ==
    With([i \in 1..Len(line.attrs) |->
             arg(conv(reader.constructor, i - 1), line.attrs[i])],
         LAMBDA a :
            IF reader.constructor = "MedicaidFTSColumn"
            THEN [exc |-> "",
                  value |-> MedicaidFTSColumn(a[1], a[2], a[3],
                                              PyStr(strip(a[4])), a[5], a[6])]
            ELSE MedicareFTSColumn(a[1], a[2], a[3], a[4], a[5], a[6], a[7]))

----------------------------------------------------------------------------
(* CMSFTS, MedicaidFTS, MedicareFTS.  A parser object is a record of its  *)
(* attributes.  self.indices is bound to the class list common_indices by *)
(* CMSFTS.__init__ and every later += and append acts on that one list    *)
(* in place, so the operations take and return the list beside self.      *)

MedicaidFTS_medicaid_indices ==
    <<IdxName("EL_DOB"), IdxName("EL_SEX_CD"), IdxName("EL_DOD"),
      IdxName("EL_RACE_ETHNCY_CD")>>

Names(s) == [k \in 1..Len(s) |-> IdxName(s[k])]

\* CMSFTS.__init__
CMSFTS__init__(type_of_data) ==
    [table_type |-> lower(type_of_data),
     table_name |-> PyNone,
     indices |-> "CMSFTS.common_indices",
     columns |-> <<>>,
     pk |-> PyNone,
     constructor |-> PyNone,
     metadata |-> EmptyDict]

\* MedicaidFTS.__init__
MedicaidFTS__init__(type_of_data, indices) ==
    With(CMSFTS__init__(type_of_data), LAMBDA base :
    IF base.table_type \notin {"ps", "ip"}
    THEN [exc |-> "AssertionError", indices |-> indices]
    ELSE IF base.table_type = "ps"
    THEN [exc |-> "",
          self |-> [cls |-> "MedicaidFTS"] @@
                   [base EXCEPT !.constructor = "MedicaidFTSColumn",
                                !.pk = <<"MSIS_ID", "STATE_CD", "MAX_YR_DT">>],
          indices |-> indices \o MedicaidFTS_medicaid_indices
                         \o Names(<<"MSIS_ID", "STATE_CD", "MAX_YR_DT">>)
                         \o <<IdxName("EL_AGE_GRP_CD")>>]
    ELSE [exc |-> "",
          self |-> [cls |-> "MedicaidFTS"] @@
                   [base EXCEPT !.constructor = "MedicaidFTSColumn",
                                !.pk = <<"FILE", "RECORD">>],
          indices |-> indices \o MedicaidFTS_medicaid_indices
                         \o Names(<<"MSIS_ID", "STATE_CD", "YR_NUM", "RECORD">>)])

\* MedicareFTS.__init__
MedicareFTS__init__(type_of_data, indices) ==
    With(CMSFTS__init__(type_of_data), LAMBDA base :
    IF base.table_type \notin Range(MEDICARE_FILE_TYPES)
    THEN [exc |-> "AssertionError", indices |-> indices]
    ELSE [exc |-> "",
          self |-> [cls |-> "MedicareFTS",
                    key_columns |-> [key \in Range(MEDICARE_KEYS) |-> PyNone]] @@
                   [base EXCEPT !.constructor = "MedicareFTSColumn",
                                !.pk = <<"FILE", "RECORD">>],
          indices |-> indices])

\* CMSFTS.add_record_column
add_record_column(columns) ==
    Append(columns,
           [FTSColumn(PyInt(Len(columns) + 1), "RECORD", PG_SERIAL_TYPE, PyNone,
                      PyNone, "Record number in the file")
               EXCEPT !.is_input = FALSE])

\* CMSFTS.add_file_column
add_file_column(columns) ==
    Append(columns,
           [FTSColumn(PyInt(Len(columns) + 1), ORIGINAL_FILE_COLUMN, "CHAR",
                      PyStr(<<"1", "2", "8">>), PyInt(128),
                      "RESDAC original file name")
               EXCEPT !.is_input = FALSE])

\* self.table_type.startswith("mbsf_ab"), over the Medicare table types
startswith_mbsf_ab(table_type) == table_type \in {"mbsf_abcd", "mbsf_ab"}

\* the candidates without the synonyms of the key
candidates_key_only(key) == {key}

\* [key] + MEDICARE_KEY_COLUMNS[key]
candidates(key) == {key} \cup Range(MEDICARE_KEY_COLUMNS[key])

\* the first loop of check_key_columns, from column c (0-based) and key
\* number k (0-based): the key columns found, or the duplicate
RECURSIVE find_key_columns(_, _, _, _)
find_key_columns(key_columns, columns, c, k) ==
    IF c >= Len(columns) THEN [exc |-> "", key_columns |-> key_columns]
    ELSE IF k >= Len(MEDICARE_KEYS) THEN find_key_columns(key_columns, columns, c + 1, 0)
    ELSE IF upper(columns[c + 1].column) \in candidates(MEDICARE_KEYS[k + 1])
    THEN IF key_columns[MEDICARE_KEYS[k + 1]] # PyNone
         THEN [exc |-> "ValueError",
               msg |-> <<"Duplicate column candidate for ", MEDICARE_KEYS[k + 1]>>,
               key_columns |-> key_columns]
         ELSE find_key_columns(
                  [key_columns EXCEPT ![MEDICARE_KEYS[k + 1]] = columns[c + 1]],
                  columns, c, k + 1)
    ELSE find_key_columns(key_columns, columns, c, k + 1)

\* the first key of the list that has no column, if any
FirstMissing(key_columns, keys) ==
    With({k \in 1..Len(keys) : key_columns[keys[k]] = PyNone}, LAMBDA missing :
        IF missing = {} THEN PyNone
        ELSE PyStr(keys[CHOOSE k \in missing : \A j \in missing : k <= j]))

\* the two loops of check_key_columns that look for a missing key
missing_key(self) ==
    With(FirstMissing(self.key_columns, <<"BENE_ID", "YEAR">>), LAMBDA required :
    With(FirstMissing(self.key_columns, MEDICARE_KEYS), LAMBDA strict :
        IF required # PyNone
        THEN [exc |-> "ValueError",
              msg |-> <<"Missing ", required.v, " column for ", self.table_type>>,
              self |-> self]
        ELSE IF startswith_mbsf_ab(self.table_type) /\ strict # PyNone
        THEN [exc |-> "ValueError",
              msg |-> <<"Missing ", strict.v, " column for ", self.table_type>>,
              self |-> self]
        ELSE [exc |-> "", self |-> self]))

\* MedicareFTS.check_key_columns: self after it, and the exception if any
check_key_columns(self, columns) ==
    With(find_key_columns(self.key_columns, columns, 0, 0), LAMBDA found :
        IF found.exc # ""
        THEN [exc |-> found.exc, msg |-> found.msg,
              self |-> [self EXCEPT !.key_columns = found.key_columns]]
        ELSE missing_key([self EXCEPT !.key_columns = found.key_columns]))

\* p_idx_columns when every key that has a column is listed
p_idx_append_every_key(self, p_idx_columns, key) == Append(p_idx_columns, key)

\* p_idx_columns after the key is looked at
p_idx_append(self, p_idx_columns, key) ==
    IF key \in {"BENE_ID", "YEAR"} THEN Append(p_idx_columns, key)
    ELSE IF startswith_mbsf_ab(self.table_type) /\ key \in {"STATE"}
    THEN Append(p_idx_columns, key)
    ELSE p_idx_columns

\* the loop of add_indices from key number k (0-based): the columns, the
\* index list and p_idx_columns after it
RECURSIVE add_indices_loop(_, _, _, _, _)
add_indices_loop(self, columns, indices, p_idx_columns, k) ==
    IF k >= Len(MEDICARE_KEYS)
    THEN [columns |-> columns, indices |-> indices,
          p_idx_columns |-> p_idx_columns]
    ELSE IF self.key_columns[MEDICARE_KEYS[k + 1]] = PyNone
    THEN add_indices_loop(self, columns, indices, p_idx_columns, k + 1)
    ELSE IF upper(self.key_columns[MEDICARE_KEYS[k + 1]].column) = MEDICARE_KEYS[k + 1]
    THEN add_indices_loop(self, columns,
                          Append(indices, IdxName(MEDICARE_KEYS[k + 1])),
                          p_idx_append(self, p_idx_columns, MEDICARE_KEYS[k + 1]),
                          k + 1)
    ELSE add_indices_loop(self,
                          Append(columns,
                                 AliasColumn(MEDICARE_KEYS[k + 1],
                                             self.key_columns[MEDICARE_KEYS[k + 1]])),
                          indices,
                          p_idx_append(self, p_idx_columns, MEDICARE_KEYS[k + 1]),
                          k + 1)

\* MedicareFTS.add_indices
add_indices(self, columns, indices) ==
    With(add_indices_loop(self, columns, indices, <<>>, 0), LAMBDA r :
        [columns |-> r.columns,
         indices |-> Append(r.indices, IdxPrimary(r.p_idx_columns))])

\* MedicareFTS.on_after_read_file after the two columns are added
MedicareFTS_after_columns(self, columns, indices) ==
    With(check_key_columns(self, columns), LAMBDA checked :
        IF checked.exc # ""
        THEN [exc |-> checked.exc, msg |-> checked.msg,
              self |-> checked.self, indices |-> indices]
        ELSE With(add_indices(checked.self, columns, indices), LAMBDA added :
                 [exc |-> "", self |-> checked.self,
                  indices |-> added.indices, columns |-> added.columns]))

\* on_after_read_file of the parser's class: CMSFTS adds the file column,
\* MedicaidFTS the record column for "ip", MedicareFTS the record column,
\* the key detection and the indices
on_after_read_file(self, columns, indices) ==
    IF self.cls = "MedicaidFTS"
    THEN [exc |-> "", self |-> self, indices |-> indices,
          columns |-> IF self.table_type = "ip"
                      THEN add_record_column(add_file_column(columns))
                      ELSE add_file_column(columns)]
    ELSE MedicareFTS_after_columns(
             self, add_record_column(add_file_column(columns)), indices)

----------------------------------------------------------------------------
(* CMSFTS.read_file *)

\* the for loop over the header from line i (0-based): where it stops,
\* whether it stopped at a divider, and the metadata it has stored
RECURSIVE scan(_, _, _)
scan(lines, i, metadata) ==
    IF i >= Len(lines)
    THEN [i |-> IF Len(lines) = 0 THEN 0 ELSE Len(lines) - 1, found |-> FALSE,
          metadata |-> metadata]
    ELSE LET line == lines[i + 1] IN
         IF is_divider(line)
         THEN [i |-> i, found |-> TRUE, metadata |-> metadata]
         ELSE scan(lines, i + 1,
                   IF has_colon(line)
                   THEN dict_set(metadata, line.key, strip(line.val))
                   ELSE metadata)

\* the while loop over the column lines, entered with cursor i (0-based)
RECURSIVE read_columns(_, _, _, _)
read_columns(reader, lines, i, columns) ==
    IF ~(i < Len(lines)) THEN [exc |-> "", columns |-> columns]
    ELSE IF i + 1 >= Len(lines) THEN [exc |-> "IndexError"]   \* lines[len(lines)]
    ELSE IF lines[i + 2].k \in {"blank", "note", "end"}
    THEN [exc |-> "", columns |-> columns]
    ELSE With(ColumnReader_read(reader, lines[i + 2]), LAMBDA column :
         IF column.exc # "" THEN [exc |-> column.exc]
         ELSE read_columns(reader, lines, i + 1, Append(columns, column.value)))

\* the positions at which the new column differs from the canonical one
Mismatches(columns, canonical) ==
    {k \in 1..Len(columns) : ~FTSColumn__eq__(columns[k], canonical[k])}

\* the reconciliation of read_file: the columns h the hook returned against
\* the canonical ones
reconcile(self, h, f) ==
    IF h.self.columns = <<>>
    THEN [exc |-> "", self |-> [h.self EXCEPT !.columns = h.columns],
          indices |-> h.indices]
    ELSE IF Len(h.columns) # Len(self.columns)
    THEN [exc |-> "Exception",
          msg |-> <<"Reconciliation required: ", f.name, ", number of columns">>,
          self |-> h.self, indices |-> h.indices]
    ELSE With(Mismatches(h.columns, self.columns), LAMBDA bad :
         IF bad = {} THEN [exc |-> "", self |-> h.self, indices |-> h.indices]
         ELSE With(h.columns[CHOOSE k \in bad : \A j \in bad : k <= j],
                   LAMBDA first :
              IF first.order = PyNone      \* "{:d}".format(None) in __str__
              THEN [exc |-> "TypeError", self |-> h.self, indices |-> h.indices]
              ELSE [exc |-> "Exception",
                    msg |-> <<"Reconciliation required: ", f.name, ", column: ",
                              first.order.v, first.column, first.type>>,
                    self |-> h.self, indices |-> h.indices]))

\* read_file from the column lines on: self holds the header's metadata,
\* s is where the header scan stopped
read_table(self, indices, f, s, reader) ==
    IF reader.exc # ""
    THEN [exc |-> reader.exc, self |-> self, indices |-> indices]
    ELSE IF 1 > s.i \/ s.i > Len(f.lines) - 2
    THEN [exc |-> "Exception",
          msg |-> <<"Column definitions are not found in ", f.name>>,
          self |-> self, indices |-> indices]
    ELSE With(read_columns(reader, f.lines, s.i, <<>>), LAMBDA rc :
         IF rc.exc # ""
         THEN [exc |-> rc.exc, self |-> self, indices |-> indices]
         ELSE With(on_after_read_file(self, rc.columns, indices), LAMBDA h :
              IF h.exc # ""
              THEN [exc |-> h.exc, msg |-> h.msg, self |-> h.self,
                    indices |-> h.indices]
              ELSE reconcile(self, h, f)))

\* read_file(f): self and the index list after it, and the exception if any
read_file(self, indices, f) ==
    With(scan(f.lines, 0, self.metadata), LAMBDA s :
        read_table([self EXCEPT !.metadata = s.metadata], indices, f, s,
                   IF s.found THEN ColumnReader(self.constructor, f.lines[s.i + 1])
                   ELSE [exc |-> ""]))

----------------------------------------------------------------------------
(* The projections *)

\* the annotations column_to_dict adds to the column's dict d
annotate(indices, c, d) ==
    (IF c.column = ORIGINAL_FILE_COLUMN
     THEN [source |-> [type |-> "file"],
           index |-> [required_before_loading_data |-> TRUE]]
     ELSE EmptyDict)
    @@ (IF IdxName(c.column) \in Range(indices) THEN [index |-> PyTrue]
        ELSE EmptyDict)
    @@ d

\* CMSFTS.column_to_dict
column_to_dict(self, indices, c) ==
    With(to_dict_of(c), LAMBDA d :
        IF d.exc # "" THEN [exc |-> d.exc]
        ELSE [exc |-> "", value |-> annotate(indices, c, d.value)])

\* the dicts of an index list merged by update(), in order
RECURSIVE merged_indices(_)
merged_indices(indices) ==
    IF indices = <<>> THEN EmptyDict
    ELSE IF indices[Len(indices)].t # "dict"
    THEN merged_indices(SubSeq(indices, 1, Len(indices) - 1))
    ELSE dict_set(merged_indices(SubSeq(indices, 1, Len(indices) - 1)),
                  "primary", indices[Len(indices)].primary)

\* the table dict of to_dict from the dicts ds of the columns
table_dict(self, indices, ds) ==
    With({k \in 1..Len(ds) : ds[k].exc # ""}, LAMBDA failed :
        IF failed # {}
        THEN [exc |-> ds[CHOOSE k \in failed : \A j \in failed : k <= j].exc]
        ELSE [exc |-> "",
              value |->
                (IF \E k \in 1..Len(indices) : indices[k].t = "dict"
                 THEN [indices |-> merged_indices(indices)] ELSE EmptyDict)
                @@ [tname |-> IF self.table_name # PyNone THEN self.table_name.v
                              ELSE self.table_type,
                    columns |-> [k \in 1..Len(ds) |->
                                   [name |-> self.columns[k].column,
                                    d |-> ds[k].value]],
                    primary_key |-> self.pk]])

\* CMSFTS.to_dict: the table's entry of the schema mapping
to_dict(self, indices) ==
    table_dict(self, indices,
               [k \in 1..Len(self.columns) |->
                   column_to_dict(self, indices, self.columns[k])])

RecordLengthKey == "Exact File Record Length (Bytes in Variable Block)"
FileSizeKey == "Exact File Size in Bytes with 512 Blocksize"
RowsKey == "Exact File Quantity (Rows)"

\* self.metadata.get(key, None)
dict_get(d, key) == IF key \in DOMAIN d THEN PyStr(d[key]) ELSE PyNone

\* CMSFTS.v2i
v2i(v) ==
    IF v = PyNone THEN [exc |-> "AttributeError"]     \* None.strip()
    ELSE int_of_str(remove(strip(v.v), ","))

\* the loop of to_fwf_meta over self.columns from column k (0-based); the
\* reader's FWFColumn ends at start + width
RECURSIVE fwf_columns(_, _, _, _)
fwf_columns(columns, k, pos, out) ==
    IF k >= Len(columns) THEN [exc |-> "", value |-> out]
    ELSE IF ~columns[k + 1].is_input THEN fwf_columns(columns, k + 1, pos, out)
    ELSE With(to_fwf_column(columns[k + 1], pos), LAMBDA fwf_column :
         IF fwf_column.exc # "" THEN [exc |-> fwf_column.exc]
         ELSE IF fwf_column.value.width[1] = PyNone THEN [exc |-> "TypeError"]
         ELSE fwf_columns(columns, k + 1, pos + fwf_column.value.width[1].v,
                          Append(out, fwf_column.value)))

\* to_fwf_meta once the three numbers are read from the metadata
fwf_meta(self, record_len, fsize, nrows) ==
    IF record_len.exc # "" THEN [exc |-> record_len.exc]
    ELSE IF fsize.exc # "" THEN [exc |-> fsize.exc]
    ELSE IF nrows.exc # "" THEN [exc |-> nrows.exc]
    ELSE With(fwf_columns(self.columns, 0, 0, <<>>), LAMBDA columns :
         IF columns.exc # "" THEN [exc |-> columns.exc]
         ELSE [exc |-> "",
               value |-> [record_len |-> record_len.value, size |-> fsize.value,
                          number_of_rows |-> nrows.value,
                          columns |-> columns.value]])

\* CMSFTS.to_fwf_meta
to_fwf_meta(self) ==
    IF RecordLengthKey \notin DOMAIN self.metadata
    THEN [exc |-> "AssertionError", msg |-> <<"Record Length is undefined">>]
    ELSE fwf_meta(self, v2i(dict_get(self.metadata, RecordLengthKey)),
                  v2i(dict_get(self.metadata, FileSizeKey)),
                  v2i(dict_get(self.metadata, RowsKey)))

----------------------------------------------------------------------------
(* The FTS files the parsers are given *)

\* a Medicaid column line: order, name, type, format, width, label
M1 == ColumnLine(<<(<<"1">>), "MSIS_ID", "CHAR", <<"2", "0">>, <<"2", "0">>, "id">>)
M2 == ColumnLine(<<(<<"2">>), "EL_DOB", "NUM", <<"8">>, <<"8">>, "birth">>)
M3 == ColumnLine(<<(<<"3">>), "EL_SEX_CD", "CHAR", <<"1">>, <<"1">>, "sex">>)

\* the line with one field changed, for each field
OtherField ==
    <<(<<"7">>), "EL_DOD", "DATE", <<"S", "8">>, <<"9">>, "another label">>
OneFieldChanged(line) ==
    {[line EXCEPT !.attrs[i] = OtherField[i]] : i \in 1..6}

MedicaidTables ==
    {<<M1, M2>>, <<M1>>, <<M1, M2, M3>>}
        \cup {<<M1, v>> : v \in OneFieldChanged(M2)}

\* a Medicare column line: order, long name, short name, type, start,
\* width, description
R1 == ColumnLine(<<(<<"1">>), "Beneficiary ID", "BENE_ID", "CHAR", <<"1">>,
                   <<"1", "5">>, "id">>)
R2 == ColumnLine(<<(<<"2">>), "Reference year", "RFRNC_YR", "NUM", <<"1", "6">>,
                   <<"4">>, "year">>)
R3 == ColumnLine(<<(<<"3">>), "Zip code", "ZIP_CD", "CHAR", <<"2", "0">>,
                   <<"9">>, "zip">>)

MedicareTables ==
    {<<R1, R2, R3>>, <<R1, R2>>, <<R1, R3>>,
     <<[R1 EXCEPT !.attrs[2] = "Encrypted beneficiary ID"], R2, R3>>,
     <<[R1 EXCEPT !.attrs[5] = <<"2">>], R2, R3>>,
     <<R1, [R2 EXCEPT !.attrs[6] = <<>>], R3>>}

MetaRecordLength == MetaLine(RecordLengthKey, <<" ", "3", "0">>)
MetaFileSize == MetaLine(FileSizeKey, <<"1", ",", "0", "2", "4">>)
MetaRows == MetaLine(RowsKey, <<"5">>)

Header == <<TextLine, MetaRecordLength, MetaFileSize, MetaRows>>

Headers ==
    {Header, <<>>, <<MetaRecordLength>>,
     <<MetaLine(RecordLengthKey, <<"4", "0">>), MetaFileSize, MetaRows>>,
     <<NoteLine, MetaFileSize, MetaRows>>}

Terminators == {<<BlankLine>>, <<NoteLine>>, <<EndLine>>, <<>>}

\* the texts of the files: a header, the divider, the column lines, the
\* terminator; one part varied at a time
FileTexts ==
    {Header \o <<DividerLine(6)>> \o t \o <<BlankLine>> : t \in MedicaidTables}
    \cup {h \o <<DividerLine(6)>> \o <<M1, M2>> \o <<BlankLine>> : h \in Headers}
    \cup {Header \o <<DividerLine(6)>> \o <<M1, M2>> \o e : e \in Terminators}
    \cup {Header \o <<M1, M2>> \o <<BlankLine>>, Header \o <<DividerLine(6)>>}
    \cup {Header \o <<DividerLine(7)>> \o t \o <<BlankLine>> : t \in MedicareTables}

\* the Medicare files of the key detection: every selection, in order, of
\* the five columns below
KeyLine(k) ==
    ColumnLine(<<(<<"1">>), "a long name",
                 <<"bene_id", "STATE_CD", "RFRNC_YR", "ZIP_CD", "ZIP">>[k],
                 "CHAR", <<"1">>, <<"5">>, "a key">>)

RECURSIVE Selection(_, _)
Selection(S, k) ==
    IF k > 5 THEN <<>>
    ELSE (IF k \in S THEN <<KeyLine(k)>> ELSE <<>>) \o Selection(S, k + 1)

KeyFileTexts ==
    {Header \o <<DividerLine(7)>> \o Selection(S, 1) \o <<BlankLine>> :
        S \in SUBSET (1..5)}

\* the n-th file of a run
File(n, text) == [name |-> <<"fts", n>>, lines |-> text]

----------------------------------------------------------------------------
(* The operations on the parsers *)

Slots == 1..MaxParsers

Constructors == {"MedicaidFTS", "MedicareFTS"}

\* the calls made on constructed parsers so far
NCalls == Cardinality({k \in 1..Len(history) : history[k].op \notin Constructors})

Constructed(p) == parsers[p] # NoParser

\* the constructor calls made so far
NConstructions == Len(history) - NCalls

\* the slot a new parser takes; at most MaxParsers constructor calls are made
FreeSlot(p) ==
    /\ NConstructions < MaxParsers
    /\ ~Constructed(p)
    /\ \A q \in 1..(p - 1) : Constructed(q)

Call(op, p, a) == [op |-> op, p |-> p, arg |-> a]

\* source = MedicaidFTS(type_of_data)
NewMedicaidFTS(p, type_of_data) ==
    \E r \in {MedicaidFTS__init__(type_of_data, common_indices)} :
    /\ FreeSlot(p)
    /\ parsers' = IF r.exc = "" THEN [parsers EXCEPT ![p] = r.self] ELSE parsers
    /\ common_indices' = r.indices
    /\ history' = Append(history, Call("MedicaidFTS", p, type_of_data))
    /\ last' = [op |-> "MedicaidFTS", p |-> p, arg |-> type_of_data,
                exc |-> r.exc, pre_indices |-> common_indices]

\* source = MedicareFTS(type_of_data)
NewMedicareFTS(p, type_of_data) ==
    \E r \in {MedicareFTS__init__(type_of_data, common_indices)} :
    /\ FreeSlot(p)
    /\ parsers' = IF r.exc = "" THEN [parsers EXCEPT ![p] = r.self] ELSE parsers
    /\ common_indices' = r.indices
    /\ history' = Append(history, Call("MedicareFTS", p, type_of_data))
    /\ last' = [op |-> "MedicareFTS", p |-> p, arg |-> type_of_data,
                exc |-> r.exc, pre_indices |-> common_indices]

\* parsers[p].read_file(f)
ReadFile(p, text) ==
    /\ Constructed(p)
    /\ NCalls < MaxCalls
    /\ \E f \in {File(Len(history) + 1, text)} :
       \E r \in {read_file(parsers[p], common_indices, f)} :
          /\ parsers' = [parsers EXCEPT ![p] = r.self]
          /\ common_indices' = r.indices
          /\ history' = Append(history, Call("read_file", p, f))
          /\ last' = [op |-> "read_file", p |-> p, arg |-> f, exc |-> r.exc,
                      msg |-> IF "msg" \in DOMAIN r THEN r.msg ELSE <<>>,
                      pre |-> parsers[p], pre_indices |-> common_indices]

\* parsers[p].to_dict()
ToDict(p) ==
    /\ Constructed(p)
    /\ NCalls < MaxCalls
    /\ \E r \in {to_dict(parsers[p], common_indices)} :
          /\ history' = Append(history, Call("to_dict", p, <<>>))
          /\ last' = [op |-> "to_dict", p |-> p, exc |-> r.exc, result |-> r,
                      pre |-> parsers[p], pre_indices |-> common_indices]
    /\ UNCHANGED <<parsers, common_indices>>

\* parsers[p].to_fwf_meta(data_path)
ToFwfMeta(p) ==
    /\ Constructed(p)
    /\ NCalls < MaxCalls
    /\ \E r \in {to_fwf_meta(parsers[p])} :
          /\ history' = Append(history, Call("to_fwf_meta", p, <<>>))
          /\ last' = [op |-> "to_fwf_meta", p |-> p, exc |-> r.exc, result |-> r,
                      pre |-> parsers[p], pre_indices |-> common_indices]
    /\ UNCHANGED <<parsers, common_indices>>

MedicaidTypesOfData == {"ps", "IP", "ot"}
MedicareTypesOfData == {"medpar", "mbsf_ab", "hha"}

ConstructMedicaid == \E p \in Slots, t \in MedicaidTypesOfData : NewMedicaidFTS(p, t)
ConstructMedicare == \E p \in Slots, t \in MedicareTypesOfData : NewMedicareFTS(p, t)
Read == \E p \in Slots, text \in FileTexts : ReadFile(p, text)
ProjectSchema == \E p \in Slots : ToDict(p)
ProjectDecode == \E p \in Slots : ToFwfMeta(p)

Next ==
    \/ ConstructMedicaid
    \/ ConstructMedicare
    \/ Read
    \/ ProjectSchema
    \/ ProjectDecode

Spec == Init /\ [][Next]_vars

\* the key detection: one Medicare parser of any table type, and the files
\* of the key detection
KeysConstruct == \E t \in Range(MEDICARE_FILE_TYPES) : NewMedicareFTS(1, t)
KeysRead == \E text \in KeyFileTexts : ReadFile(1, text)
KeysProject == ToDict(1)

NextKeys == KeysConstruct \/ KeysRead \/ KeysProject

SpecKeys == Init /\ [][NextKeys]_vars

----------------------------------------------------------------------------
(* The column functions applied to columns drawn from bounded sets *)

Ch(s) == PyStr(s)

ColumnTypes == {"CHAR", "NUM", "DATE", "SERIAL", "num", "char", "BLOB"}

ColumnFormats ==
    {PyNone, Ch(<<>>), Ch(<<"9">>), Ch(<<"1", "2">>), Ch(<<"9", ".", "2">>),
     Ch(<<"9", ".">>), Ch(<<"S", "9">>), Ch(<<"S", "9", ".", "2">>),
     Ch(<<"$", "C", "H", "A", "R">>)}

ColumnWidths ==
    {PyNone, PyInt(9), PyInt(128), PyFloat(9, <<"2">>), PyFloat(8, <<"0">>)}

TypedColumns ==
    {FTSColumn(PyInt(1), "COL", t, f, w, "a column") :
        t \in ColumnTypes, f \in ColumnFormats, w \in ColumnWidths}

\* columns of every class, each with single-attribute variants
MedicaidVariants ==
    {MedicaidFTSColumn(PyInt(o), c, t, f, w, l) :
        o \in {1, 2}, c \in {"MSIS_ID", "STATE_CD"}, t \in {"CHAR", "NUM"},
        f \in {Ch(<<"9">>), Ch(<<"S", "9">>)}, w \in {PyInt(9), PyInt(8)},
        l \in {"label", "other label"}}

MedicareResults ==
    {MedicareFTSColumn(PyInt(1), ln, sn, "NUM", PyInt(st), w, "desc") :
        ln \in {"Zip code", "ZIP code of residence"}, sn \in {"ZIP_CD", "STATE_CD"},
        st \in {1, 5}, w \in {PyFloat(5, <<"0">>), PyFloat(9, <<"2">>)}}

MedicareVariants == {r.value : r \in MedicareResults}

AliasVariants == {AliasColumn("ZIP", c) : c \in MedicareVariants}

EqObjects ==
    MedicaidVariants \cup MedicareVariants \cup AliasVariants
        \cup {[cls |-> "str"]}

\* self.to_sql_type()
ToSqlType ==
    /\ last.op = "none"
    /\ \E self \in TypedColumns \cup MedicareVariants :
          last' = [op |-> "to_sql_type", self |-> self,
                   result |-> to_sql_type(self)]
    /\ UNCHANGED <<common_indices, parsers, history>>

\* self.analyze_format()
AnalyzeFormat ==
    /\ last.op = "none"
    /\ \E self \in TypedColumns :
          last' = [op |-> "analyze_format", self |-> self,
                   result |-> analyze_format(self)]
    /\ UNCHANGED <<common_indices, parsers, history>>

\* self == o
ColumnEq ==
    /\ last.op = "none"
    /\ \E self \in EqObjects \ {[cls |-> "str"]}, o \in EqObjects :
          last' = [op |-> "__eq__", self |-> self, o |-> o,
                   result |-> FTSColumn__eq__(self, o)]
    /\ UNCHANGED <<common_indices, parsers, history>>

NextColumn == ToSqlType \/ AnalyzeFormat \/ ColumnEq

SpecColumn == Init /\ [][NextColumn]_vars

----------------------------------------------------------------------------
(* Claims about the column functions, checked under SpecColumn *)

\* the format of the column of the last call, split as the decision table
\* reads it: the leading flag dropped, then the parts around the point
FormatBody(c) == IF isdigit(c.format.v[1]) THEN c.format.v ELSE Tail(c.format.v)
FormatParts(c) == split(FormatBody(c), ".")
HasFormat(c) == c.format # PyNone /\ c.format.v # <<>>
HasScale(c) == Len(FormatParts(c)) > 1 /\ FormatParts(c)[2] # <<>>

\* C2: a NUM column with a format gets decimal(integer-width, scale) for a
\* digit-leading format with a non-empty decimal part, integer for a
\* digit-leading format without one, and string(integer-width) for a
\* flag-leading format.
C2_NumDecisionTable ==
    (/\ last.op = "to_sql_type"
     /\ upper(last.self.type) = "NUM"
     /\ HasFormat(last.self)
     /\ str_isdigit(FormatParts(last.self)[1]))
    => LET c == last.self
           w == DecimalValue(FormatParts(c)[1])
       IN  CASE isdigit(c.format.v[1]) /\ HasScale(c) ->
                  /\ str_isdigit(FormatParts(c)[2])
                  /\ last.result =
                       SqlType(PG_NUMERIC_TYPE,
                               <<w, DecimalValue(FormatParts(c)[2])>>)
             [] isdigit(c.format.v[1]) /\ ~HasScale(c) ->
                  last.result = SqlType(PG_INT_TYPE, <<>>)
             [] OTHER -> last.result = SqlType(PG_STR_TYPE, <<w>>)

\* C3: a CHAR column gets a string type whatever its format is: the call
\* of a column with an integer width does not fail, the result is
\* string(w), and w is the column's width when no format overrides it.
C3_CharIsStringOfWidth ==
    (/\ last.op = "to_sql_type"
     /\ upper(last.self.type) = "CHAR"
     /\ last.self.width.t = "int")
    => /\ last.result.exc = ""
       /\ last.result.value.name = PG_STR_TYPE
       /\ Len(last.result.value.args) = 1
       /\ last.self.format = PyNone
            => last.result.value.args = <<last.self.width.v>>

\* the public attributes of a column object
PublicFields(c) == DOMAIN c \ {"cls", "_attrs"}

PublicFieldsMatch(a, b) ==
    /\ PublicFields(a) = PublicFields(b)
    /\ \A f \in PublicFields(a) : ~attr_ne(a, b, f)

\* C8: two column definitions compare equal if and only if every public
\* field matches, the fields the variants add (long name, start, end,
\* target) included.
C8_EqIffAllPublicFieldsMatch ==
    (last.op = "__eq__" /\ isinstance_FTSColumn(last.o))
    => (last.result <=> PublicFieldsMatch(last.self, last.o))

----------------------------------------------------------------------------
(* Claims about key detection and indices of a Medicare parser, checked   *)
(* under SpecKeys                                                          *)

\* the column lines of a file's text
ColumnLines(f) == SelectSeq(f.lines, LAMBDA line : line.k = "column")

\* the upper-cased short names of the columns of a Medicare file
KeyNames(f) == [k \in 1..Len(ColumnLines(f)) |-> upper(ColumnLines(f)[k].attrs[3])]

\* a key's name and its synonyms
Synonyms(key) == {key} \cup Range(MEDICARE_KEY_COLUMNS[key])

\* the number of columns of the file that match the key
MatchCount(f, key) ==
    Cardinality({k \in 1..Len(KeyNames(f)) : KeyNames(f)[k] \in Synonyms(key)})

Keys == Range(MEDICARE_KEYS)

\* the parser holds no key column yet
NoKeyColumns(self) == \A key \in Keys : self.key_columns[key] = PyNone

\* the keys the table type requires
RequiredKeys(table_type) ==
    {"BENE_ID", "YEAR"}
        \cup (IF startswith_mbsf_ab(table_type) THEN {"STATE", "ZIP"} ELSE {})

\* C4: when a Medicare parser that holds no key column yet reads a file, a
\* key matched by more than one column (by its name or a synonym, upper
\* cased) fails the read with "Duplicate column candidate"; otherwise a
\* missing BENE_ID or YEAR, and for mbsf_ab* also a missing STATE or ZIP,
\* fails it with "Missing <key> column for <table type>"; otherwise the
\* read succeeds and every key holds the column that matches it, or none.
C4_KeyDetection ==
    (/\ last.op = "read_file"
     /\ NoKeyColumns(last.pre))
    => LET f == last.arg
           t == last.pre.table_type
           dup == {key \in Keys : MatchCount(f, key) > 1}
           missing == {key \in RequiredKeys(t) : MatchCount(f, key) = 0}
       IN  IF dup # {}
           THEN /\ last.exc = "ValueError"
                /\ last.msg[1] = "Duplicate column candidate for "
                /\ last.msg[2] \in dup
           ELSE IF missing # {}
           THEN /\ last.exc = "ValueError"
                /\ \E key \in missing :
                      last.msg = <<"Missing ", key, " column for ", t>>
           ELSE /\ last.exc = ""
                /\ \A key \in Keys :
                      LET c == parsers[last.p].key_columns[key]
                      IN  IF MatchCount(f, key) = 0 THEN c = PyNone
                          ELSE /\ c # PyNone
                               /\ upper(c.column) \in Synonyms(key)

\* C4's case: a key-strict table type reads a file that has BENE_ID, STATE
\* and YEAR columns and no ZIP column, and the read fails for the ZIP
C4_StrictTypeMissesZip ==
    /\ last.op = "read_file"
    /\ NoKeyColumns(last.pre)
    /\ startswith_mbsf_ab(last.pre.table_type)
    /\ \A key \in {"BENE_ID", "STATE", "YEAR"} : MatchCount(last.arg, key) = 1
    /\ MatchCount(last.arg, "ZIP") = 0
    /\ last.exc = "ValueError"
    /\ last.msg = <<"Missing ", "ZIP", " column for ", last.pre.table_type>>

\* the composite primary index the last read appended to the index list
PrimaryIndex == common_indices[Len(common_indices)].primary.columns

\* the keys of the set, in the order of MEDICARE_KEYS
KeysInOrder(S) == SelectSeq(MEDICARE_KEYS, LAMBDA key : key \in S)

\* the alias columns of a column list
Aliases(columns) ==
    {k \in 1..Len(columns) : columns[k].cls = "AliasColumn"}

\* C5 as stated: after a Medicare file is parsed successfully the primary
\* index lists exactly the keys among BENE_ID, STATE, YEAR, ZIP that were
\* detected in the file.
C5_PrimaryIndexListsDetectedKeys ==
    (/\ last.op = "read_file"
     /\ last.exc = ""
     /\ NoKeyColumns(last.pre))
    => PrimaryIndex = KeysInOrder({key \in Keys : MatchCount(last.arg, key) > 0})

\* C5, amended: after a Medicare file is parsed successfully the primary
\* index lists, of the keys the parser holds a column for, BENE_ID and YEAR,
\* and STATE for the mbsf_ab* table types only, never ZIP; for every held
\* key whose column's upper-cased name differs from the key exactly one
\* AliasColumn named by the key and targeting that column is appended, which
\* projects as indexed and generated from the target; a key whose column has
\* the key's name (in any case) gets no alias and is added to the index list
\* by name.
C5_PrimaryIndexAndAliases ==
    (/\ last.op = "read_file"
     /\ last.exc = "")
    => LET self == parsers[last.p]
           held == {key \in Keys : self.key_columns[key] # PyNone}
           renamed == {key \in held : upper(self.key_columns[key].column) # key}
           listed == {key \in held :
                        \/ key \in {"BENE_ID", "YEAR"}
                        \/ key = "STATE" /\ startswith_mbsf_ab(self.table_type)}
           appended == SubSeq(common_indices, Len(last.pre_indices) + 1,
                              Len(common_indices))
       IN  /\ PrimaryIndex = KeysInOrder(listed)
           /\ appended = [k \in 1..Len(KeysInOrder(held \ renamed)) |->
                             IdxName(KeysInOrder(held \ renamed)[k])]
                         \o <<IdxPrimary(KeysInOrder(listed))>>
           /\ Cardinality(Aliases(self.columns)) = Cardinality(renamed)
           /\ \A key \in renamed :
                 \E k \in Aliases(self.columns) :
                    /\ self.columns[k].column = key
                    /\ self.columns[k].target = self.key_columns[key].column
                    /\ to_dict_of(self.columns[k]).exc = ""
                    /\ to_dict_of(self.columns[k]).value.index = PyTrue
                    /\ to_dict_of(self.columns[k]).value.source =
                          [type |-> "generated",
                           code |-> self.key_columns[key].column]

\* C5's case: a file with a ZIP_CD column and a column named by its key in
\* lower case is parsed successfully
C5_ZipAliasOutsidePrimaryIndex ==
    /\ last.op = "read_file"
    /\ last.exc = ""
    /\ NoKeyColumns(last.pre)
    /\ parsers[last.p].key_columns["ZIP"] # PyNone
    /\ parsers[last.p].key_columns["ZIP"].column = "ZIP_CD"
    /\ parsers[last.p].key_columns["BENE_ID"].column = "bene_id"
    /\ \E k \in Aliases(parsers[last.p].columns) :
          /\ parsers[last.p].columns[k].column = "ZIP"
          /\ parsers[last.p].columns[k].target = "ZIP_CD"
    /\ "ZIP" \notin Range(PrimaryIndex)

----------------------------------------------------------------------------
(* Claims about the parsers, checked under Spec *)

\* the earlier read_file calls of the history on the parser of the last call
EarlierReads ==
    {k \in 1..(Len(history) - 1) :
        history[k].op = "read_file" /\ history[k].p = last.p}

\* the parser as constructed, before it read any file
AsConstructed(self) ==
    IF self.cls = "MedicareFTS"
    THEN [self EXCEPT !.columns = <<>>, !.metadata = EmptyDict,
                      !.key_columns = [key \in Keys |-> PyNone]]
    ELSE [self EXCEPT !.columns = <<>>, !.metadata = EmptyDict]

\* a parser of this kind reads the file successfully as its first file
Readable(self, f) == read_file(AsConstructed(self), <<>>, f).exc = ""

\* C1: a parser that holds the columns of a first file, read successfully,
\* reads a second file that is readable by itself: with the same column
\* table the read succeeds and leaves columns, primary key and index list
\* as they were; with a different column table it fails with
\* "Reconciliation required" naming the second file.
C1_Reconciliation ==
    (/\ last.op = "read_file"
     /\ last.pre.columns # <<>>
     /\ Cardinality(EarlierReads) = 1
     /\ Readable(last.pre, last.arg))
    => LET first == history[CHOOSE k \in EarlierReads : TRUE].arg
       IN  IF ColumnLines(last.arg) = ColumnLines(first)
           THEN /\ last.exc = ""
                /\ parsers[last.p].columns = last.pre.columns
                /\ parsers[last.p].pk = last.pre.pk
                /\ common_indices = last.pre_indices
           ELSE /\ last.exc = "Exception"
                /\ last.msg[1] = "Reconciliation required: "
                /\ last.msg[2] = last.arg.name

\* the parser with the file size and the row count added to its metadata
\* where they are absent
WithSizeAndRows(self) ==
    [self EXCEPT !.metadata =
        @ @@ (FileSizeKey :> <<"0">>) @@ (RowsKey :> <<"0">>)]

\* C6: to_fwf_meta fails with "Record Length is undefined" exactly when the
\* record length is absent from the metadata, and with the record length
\* present its success does not depend on the file size and the row count
\* being present.
C6_OnlyRecordLengthRequired ==
    last.op = "to_fwf_meta"
    => /\ (last.exc = "AssertionError")
            <=> (RecordLengthKey \notin DOMAIN last.pre.metadata)
       /\ (/\ RecordLengthKey \in DOMAIN last.pre.metadata
           /\ to_fwf_meta(WithSizeAndRows(last.pre)).exc = "")
          => last.exc = ""

\* a column the post-processing adds: no file of the model has a column
\* named RECORD or FILE
Injected(c) ==
    c.cls = "AliasColumn" \/ c.column \in {"RECORD", ORIGINAL_FILE_COLUMN}

\* C7: a column of a parser has is_input false exactly when it is the
\* record column, the file column or an alias column, and the columns
\* to_fwf_meta returns are read from is_input columns only, so none of them
\* is an injected column.
C7_IsInputFalseIffInjected ==
    /\ \A p \in Slots :
          Constructed(p) =>
             \A k \in 1..Len(parsers[p].columns) :
                parsers[p].columns[k].is_input = ~Injected(parsers[p].columns[k])
    /\ (last.op = "to_fwf_meta" /\ last.exc = "")
       => Len(last.result.value.columns) =
             Cardinality({k \in 1..Len(last.pre.columns) :
                             ~Injected(last.pre.columns[k])})

\* the parser of slot p and its index list when only the calls of the
\* history on slot p are made, from call k on, after the module is loaded
RECURSIVE Alone(_, _, _, _)
Alone(p, k, self, indices) ==
    IF k > Len(history) THEN [self |-> self, indices |-> indices]
    ELSE IF history[k].p # p \/ history[k].op \in {"to_dict", "to_fwf_meta"}
    THEN Alone(p, k + 1, self, indices)
    ELSE With(CASE history[k].op = "MedicaidFTS" ->
                     MedicaidFTS__init__(history[k].arg, indices)
                [] history[k].op = "MedicareFTS" ->
                     MedicareFTS__init__(history[k].arg, indices)
                [] OTHER -> read_file(self, indices, history[k].arg),
              LAMBDA r :
                 Alone(p, k + 1,
                       IF "self" \in DOMAIN r THEN r.self ELSE self,
                       r.indices))

\* C9: the index list of every parser and the schema mapping it produces
\* are what they are when the parser's own calls are the only calls made.
C9_ParsersIndependent ==
    \A p \in Slots :
       Constructed(p) =>
          /\ common_indices = Alone(p, 1, NoParser, CMSFTS_common_indices).indices
          /\ to_dict(parsers[p], common_indices) =
                to_dict(Alone(p, 1, NoParser, CMSFTS_common_indices).self,
                        Alone(p, 1, NoParser, CMSFTS_common_indices).indices)

\* C10: a read_file that fails leaves the parser's columns, primary key,
\* metadata and index list as they were before the call.
C10_FailedReadLeavesModel ==
    (/\ last.op = "read_file"
     /\ last.exc \in {"Exception", "AssertionError", "ValueError"})
    => /\ parsers[last.p].columns = last.pre.columns
       /\ parsers[last.p].pk = last.pre.pk
       /\ parsers[last.p].metadata = last.pre.metadata
       /\ common_indices = last.pre_indices

\* the position (1-based) of the first divider line of the file, 0 if none
FirstDivider(f) ==
    IF \E i \in 1..Len(f.lines) : f.lines[i].k = "divider"
    THEN CHOOSE i \in 1..Len(f.lines) :
            /\ f.lines[i].k = "divider"
            /\ \A j \in 1..(i - 1) : f.lines[j].k # "divider"
    ELSE 0

\* the position of the first terminator after line d, or one past the last
\* line when the column table runs to the end of the file
TableEnd(f, d) ==
    IF \E i \in (d + 1)..Len(f.lines) : f.lines[i].k \in {"blank", "note", "end"}
    THEN CHOOSE i \in (d + 1)..Len(f.lines) :
            /\ f.lines[i].k \in {"blank", "note", "end"}
            /\ \A j \in (d + 1)..(i - 1) : f.lines[j].k \notin {"blank", "note", "end"}
    ELSE Len(f.lines) + 1

\* C11: read_file ends in a defined outcome of the scan.  With no divider
\* after the first line and before the last line it fails with "Column
\* definitions are not found"; otherwise the cursor never leaves the list of
\* lines (no IndexError), and a Medicaid parser that holds no columns yet
\* succeeds and holds one column for every line between the divider and the
\* first terminator, or the end of the file when there is no terminator.
C11_ScanEndsInDefinedOutcome ==
    (/\ last.op = "read_file"
     /\ FirstDivider(last.arg) # 0
          => last.arg.lines[FirstDivider(last.arg)].fields
                = nattrs(last.pre.constructor))
    => LET f == last.arg
           d == FirstDivider(f)
           e == TableEnd(f, d)
       IN  IF d < 2 \/ d > Len(f.lines) - 1
           THEN /\ last.exc = "Exception"
                /\ last.msg = <<"Column definitions are not found in ", f.name>>
           ELSE /\ last.exc # "IndexError"
                /\ (last.pre.cls = "MedicaidFTS" /\ last.pre.columns = <<>>)
                   => /\ last.exc = ""
                      /\ Len(parsers[last.p].columns) >= e - d - 1
                      /\ \A k \in 1..(e - d - 1) :
                            parsers[last.p].columns[k].column
                               = f.lines[d + k].attrs[2]

============================================================================
